---- MODULE Spec2Model ----
(***************************************************************************)
(* Model of solve() in src/model.py: a capacitated vehicle routing model   *)
(* built on the OR-tools routing library.  The call is modelled as a       *)
(* sequential state machine: normalisation of the arguments, construction  *)
(* of the routing model (index manager, Distance and Capacity dimensions,  *)
(* soft upper bounds), the search, and the decoding of the assignment into *)
(* routes of Stops.  The search is an external collaborator: it returns    *)
(* either no assignment or any assignment that satisfies the registered    *)
(* dimensions.  Python lists are sequences; a Python index i is the        *)
(* sequence index i + 1.  An optional argument is <<>> (None) or <<v>>.    *)
(* The lat/lon fields of a Stop are copied from the nodes argument and     *)
(* play no part in any decision; they are left out of the Stop record.     *)
(***************************************************************************)
EXTENDS Integers, Sequences, FiniteSets, TLC

\* ---- bounds of the explored inputs ----
MaxNodes == 3
MaxVehicles == 2
MaxDist == 2
MaxDemand == 1

\* ---- default of the soft_distance_penalty argument ----
soft_distance_penalty == 100000

VARIABLES
    distance_matrix,              \* argument: list of rows
    demand,                       \* argument: list of demands
    depot_index,                  \* argument
    vehicle_cap,                  \* argument
    num_vehicles,                 \* argument, optional
    distance_constraint_int,      \* argument
    soft_distance_constrint_int,  \* argument, optional
    DEMAND,                       \* normalised demand list
    NUM_VEHICLES,                 \* resolved vehicle count
    SOFT_DISTANCE_CONSTRAINT,     \* resolved soft bound
    model,                        \* what has been registered on the routing model
    assignment,                   \* result of SolveWithParameters
    solution,                     \* list of routes built by the decoder
    route,                        \* route of the vehicle being decoded
    idx,                          \* current solver index of the walk
    prev_node_index,              \* node read by the dist lookup
    prev_node,                    \* node written at the end of a walk iteration
    route_number,                 \* loop variable _route_number
    result,                       \* what the call returned
    pc                            \* position in solve()

args == <<distance_matrix, demand, depot_index, vehicle_cap, num_vehicles,
          distance_constraint_int, soft_distance_constrint_int>>
locals == <<DEMAND, NUM_VEHICLES, SOFT_DISTANCE_CONSTRAINT>>
walk == <<solution, route, idx, prev_node_index, prev_node, route_number>>
vars == <<args, locals, model, assignment, walk, result, pc>>

\* ---- Python helpers ----
At(list, i) == list[i + 1]
Falsy(opt) == opt = <<>> \/ opt = <<0>>
RECURSIVE SumSeq(_)
SumSeq(s) == IF s = <<>> THEN 0 ELSE Head(s) + SumSeq(Tail(s))
Repeat(x, n) == [i \in 1..n |-> x]

NUM_NODES == Len(distance_matrix)

\* ---- RoutingIndexManager(NUM_NODES, NUM_VEHICLES, depot_index) ----
\* Indices 0..NUM_NODES-1 are the nodes themselves (the depot's index is the
\* start of vehicle 0), then one extra start per further vehicle, then one
\* end per vehicle.
Size == NUM_NODES + NUM_VEHICLES - 1
Start(v) == IF v = 0 THEN depot_index ELSE NUM_NODES + v - 1
End(v) == Size + v
IsEnd(i) == i >= Size
IndexToNode(i) == IF i < NUM_NODES THEN i ELSE depot_index
Vehicles == 0..(NUM_VEHICLES - 1)

\* ---- transit callbacks ----
matrix_callback(i, j) == At(At(distance_matrix, IndexToNode(i)), IndexToNode(j))
\* variant: the depot's positions are charged no demand
demand_callback_depot_free(i) ==
    IF IndexToNode(i) = depot_index THEN 0 ELSE At(DEMAND, IndexToNode(i))
demand_callback(i) == At(DEMAND, IndexToNode(i))

\* ---- assignment: NextVar values of the indices 0..Size-1 ----
NextVar(a, i) == At(a.next, i)

RECURSIVE Chain(_, _)
Chain(a, i) == IF IsEnd(i) THEN <<i>> ELSE <<i>> \o Chain(a, NextVar(a, i))

\* cumul of a dimension at the end of a chain, start cumul fixed to zero,
\* slack 0
DistanceCumul(c) == SumSeq([k \in 1..(Len(c) - 1) |-> matrix_callback(c[k], c[k + 1])])
CapacityCumul(c) == SumSeq([k \in 1..(Len(c) - 1) |-> demand_callback(c[k])])

\* The search contract: every index 0..Size-1 has one successor, the
\* successors form one path per vehicle from Start(v) to End(v), every
\* non-end index lies on exactly one path (no node may be dropped: the model
\* adds no disjunction), and both dimensions hold on every path.
Customers == (0..(NUM_NODES - 1)) \ {depot_index}
Perms(S) == {p \in [1..Cardinality(S) -> S] : \A i, j \in DOMAIN p : i # j => p[i] # p[j]}
PathOf(p, veh, v) == <<Start(v)>> \o SelectSeq(p, LAMBDA c : veh[c] = v) \o <<End(v)>>
VehicleOf(veh, i) == IF i = depot_index THEN 0 ELSE IF i < NUM_NODES THEN veh[i] ELSE i - NUM_NODES + 1
Successor(p, veh, i) ==
    LET path == PathOf(p, veh, VehicleOf(veh, i))
        k == CHOOSE k \in 1..Len(path) : path[k] = i
    IN  path[k + 1]
Closed == {[found |-> TRUE, next |-> [i \in 1..Size |-> Successor(p, veh, i - 1)]] :
              p \in Perms(Customers), veh \in [Customers -> Vehicles]}
Feasible(a) ==
    \A v \in Vehicles :
        /\ DistanceCumul(Chain(a, Start(v))) <= At(model.distance_caps, v)
        /\ CapacityCumul(Chain(a, Start(v))) <= At(model.capacity_caps, v)
None == [found |-> FALSE, next |-> <<>>]
SolveWithParameters == {None} \cup {a \in Closed : Feasible(a)}

\* ---- lines 64-90: normalisation of the arguments ----
NormalizeDemand(dm, d) == IF Len(dm) - 1 = Len(d) THEN <<0>> \o d ELSE d
ResolveVehicles(nv, D) == IF Falsy(nv) THEN Len(Tail(D)) ELSE nv[1]
VEHICLES(cap, n) == Repeat(cap, n)
ResolveSoftBound(soft, hard) == IF Falsy(soft) THEN (hard * 3) \div 4 ELSE hard

\* ---- lines 160-172: the Stop appended for index i ----
\* variant: the Stop carries the solver index instead of the logical node
StopOfRawIndex(i, prev) ==
    [idx |-> i,
     demand |-> At(DEMAND, IndexToNode(i)),
     dist |-> At(At(distance_matrix, prev), IndexToNode(i))]
StopOf(i, prev) ==
    [idx |-> IndexToNode(i),
     demand |-> At(DEMAND, IndexToNode(i)),
     dist |-> At(At(distance_matrix, prev), IndexToNode(i))]

\* ---- line 156: a vehicle whose first successor is an end is skipped ----
\* variant: no vehicle is skipped
SkipVehicleNever(a, v) == FALSE
\* variant: a vehicle with a single customer is skipped as well
SkipVehicleEager(a, v) ==
    IF IsEnd(NextVar(a, Start(v))) THEN TRUE ELSE IsEnd(NextVar(a, NextVar(a, Start(v))))
SkipVehicle(a, v) == IsEnd(NextVar(a, Start(v)))

\* ---- line 174: the walk stops after appending an end index ----
\* variant: the end test is off by one
WalkDoneOffByOne(i) == i >= Size - 1
WalkDone(i) == IsEnd(i)

\* ---- the two outcomes of the call ----
Pending == [kind |-> "pending", routes |-> <<>>]
\* variant: no assignment yields an empty list of routes
NoSolutionAsEmptyList == [kind |-> "solution", routes |-> <<>>]
NoSolution == [kind |-> "none", routes |-> <<>>]
Solution(routes) == [kind |-> "solution", routes |-> routes]

\* ---- inputs ----
Matrix(n, diag, up, down) ==
    [i \in 1..n |-> [j \in 1..n |->
        IF i = j THEN diag ELSE IF i < j THEN up * (j - i) ELSE down]]
Matrices == {Matrix(n, diag, up, down) :
                n \in 2..MaxNodes, diag \in {0, MaxDist}, up \in {1, MaxDist}, down \in {1, MaxDist}}
Demands(n) == [1..(n - 1) -> {0, MaxDemand}] \cup [1..n -> {0, MaxDemand}]
VehicleCaps == {0, MaxDemand + 1}
VehicleCounts == {<<>>, <<0>>, <<1>>, <<MaxVehicles>>}
HardBounds == {MaxDist, 2 * MaxDist + 1}
SoftBounds == {<<>>, <<MaxDist>>}
EmptyModel == [distance_caps |-> <<>>, capacity_caps |-> <<>>, soft_ub |-> <<>>]

Init ==
    /\ distance_matrix \in Matrices
    /\ demand \in Demands(Len(distance_matrix))
    /\ depot_index \in 0..(Len(distance_matrix) - 1)
    /\ vehicle_cap \in VehicleCaps
    /\ num_vehicles \in VehicleCounts
    /\ distance_constraint_int \in HardBounds
    /\ soft_distance_constrint_int \in SoftBounds
    /\ DEMAND = <<>>
    /\ NUM_VEHICLES = 0
    /\ SOFT_DISTANCE_CONSTRAINT = 0
    /\ model = EmptyModel
    /\ assignment = None
    /\ solution = <<>>
    /\ route = <<>>
    /\ idx = 0
    /\ prev_node_index = 0
    /\ prev_node = 0
    /\ route_number = 0
    /\ result = Pending
    /\ pc = "normalize"

\* lines 64-90
Normalize ==
    /\ pc = "normalize"
    /\ DEMAND' = NormalizeDemand(distance_matrix, demand)
    /\ NUM_VEHICLES' = ResolveVehicles(num_vehicles, DEMAND')
    /\ SOFT_DISTANCE_CONSTRAINT' =
           ResolveSoftBound(soft_distance_constrint_int, distance_constraint_int)
    /\ pc' = "build"
    /\ UNCHANGED <<args, model, assignment, walk, result>>

\* lines 92-136: the manager, the two dimensions and the soft upper bound
\* set at every vehicle's end index
BuildModel ==
    /\ pc = "build"
    /\ model' = [distance_caps |-> Repeat(distance_constraint_int, NUM_VEHICLES),
                 capacity_caps |-> VEHICLES(vehicle_cap, NUM_VEHICLES),
                 soft_ub |-> [i \in 1..NUM_VEHICLES |->
                                 [index |-> End(i - 1),
                                  bound |-> SOFT_DISTANCE_CONSTRAINT,
                                  penalty |-> soft_distance_penalty]]]
    /\ pc' = "search"
    /\ UNCHANGED <<args, locals, assignment, walk, result>>

\* lines 138-144
Search ==
    /\ pc = "search"
    /\ assignment' \in SolveWithParameters
    /\ pc' = "branch"
    /\ UNCHANGED <<args, locals, model, walk, result>>

\* line 146, no assignment: the function falls off its end
ReturnNone ==
    /\ pc = "branch"
    /\ ~assignment.found
    /\ result' = NoSolution
    /\ pc' = "done"
    /\ UNCHANGED <<args, locals, model, assignment, walk>>

\* lines 146-151
BeginDecode ==
    /\ pc = "branch"
    /\ assignment.found
    /\ solution' = <<>>
    /\ route_number' = 0
    /\ pc' = "vehicle"
    /\ UNCHANGED <<args, locals, model, assignment, route, idx, prev_node_index,
                   prev_node, result>>

\* lines 152-157: an unused vehicle
SkipUnused ==
    /\ pc = "vehicle"
    /\ route_number < NUM_VEHICLES
    /\ SkipVehicle(assignment, route_number)
    /\ route' = <<>>
    /\ idx' = Start(route_number)
    /\ route_number' = route_number + 1
    /\ UNCHANGED <<args, locals, model, assignment, solution, prev_node_index,
                   prev_node, result, pc>>

\* lines 152-160: a used vehicle
BeginWalk ==
    /\ pc = "vehicle"
    /\ route_number < NUM_VEHICLES
    /\ ~SkipVehicle(assignment, route_number)
    /\ route' = <<>>
    /\ idx' = Start(route_number)
    /\ prev_node_index' = IndexToNode(idx')
    /\ pc' = "walk"
    /\ UNCHANGED <<args, locals, model, assignment, solution, prev_node,
                   route_number, result>>

\* lines 162-180: one iteration of the while loop; on break the route is
\* appended to the solution and the for loop moves on
WalkStep ==
    /\ pc = "walk"
    /\ route' = Append(route, StopOf(idx, prev_node_index))
    /\ IF WalkDone(idx)
       THEN /\ solution' = Append(solution, route')
            /\ route_number' = route_number + 1
            /\ pc' = "vehicle"
            /\ UNCHANGED <<idx, prev_node>>
       ELSE /\ prev_node' = IndexToNode(idx)
            /\ idx' = NextVar(assignment, idx)
            /\ UNCHANGED <<solution, route_number, pc>>
    /\ UNCHANGED <<args, locals, model, assignment, prev_node_index, result>>

\* line 182
ReturnSolution ==
    /\ pc = "vehicle"
    /\ route_number >= NUM_VEHICLES
    /\ result' = Solution(solution)
    /\ pc' = "done"
    /\ UNCHANGED <<args, locals, model, assignment, walk>>

Next ==
    \/ Normalize
    \/ BuildModel
    \/ Search
    \/ ReturnNone
    \/ BeginDecode
    \/ SkipUnused
    \/ BeginWalk
    \/ WalkStep
    \/ ReturnSolution

Spec == Init /\ [][Next]_vars

\* ---------------------------------------------------------------------------
\* Properties
\* ---------------------------------------------------------------------------
NodesOf(r) == [k \in 1..Len(r) |-> r[k].idx]
DistsOf(r) == [k \in 1..Len(r) |-> r[k].dist]
LoadOf(r) == SumSeq([k \in 1..(Len(r) - 1) |-> r[k].demand])
Occurrences(routes, n) ==
    SumSeq([j \in 1..Len(routes) |-> Cardinality({k \in 1..Len(routes[j]) : routes[j][k].idx = n})])
Returned == pc = "done" /\ result.kind = "solution"
RECURSIVE UsedChains(_)
UsedChains(v) ==
    IF v >= NUM_VEHICLES THEN <<>>
    ELSE (IF NextVar(assignment, Start(v)) >= Size THEN <<>>
          ELSE <<[k \in 1..Len(Chain(assignment, Start(v))) |->
                     IndexToNode(Chain(assignment, Start(v))[k])]>>)
         \o UsedChains(v + 1)

\* C1: in every emitted route the dist of a Stop is the matrix entry from the
\* node of the preceding Stop to the node of this Stop, and 0 for the first
\* Stop.
C1_IncrementalDistance ==
    \A j \in 1..Len(solution) :
        \A k \in 1..Len(solution[j]) :
            solution[j][k].dist =
                IF k = 1 THEN 0
                ELSE At(At(distance_matrix, solution[j][k - 1].idx), solution[j][k].idx)

\* C2: the soft upper bound registered at every vehicle's end is the supplied
\* soft bound when one is given and 75% of the hard bound otherwise.
C2_SoftBoundRegistered ==
    pc \notin {"normalize", "build"} =>
        /\ Len(model.soft_ub) = NUM_VEHICLES
        /\ \A i \in 1..Len(model.soft_ub) :
               /\ model.soft_ub[i].index = End(i - 1)
               /\ model.soft_ub[i].bound =
                      IF soft_distance_constrint_int = <<>>
                      THEN (distance_constraint_int * 3) \div 4
                      ELSE soft_distance_constrint_int[1]

\* C3: an input with a configuration error never reaches the search and never
\* ends in the no-solution outcome or in a Solution.
ConfigError ==
    \/ Len(demand) \notin {Len(distance_matrix), Len(distance_matrix) - 1}
    \/ vehicle_cap <= 0
    \/ (num_vehicles # <<>> /\ num_vehicles[1] <= 0)
    \/ \E i \in 1..Len(distance_matrix) : Len(distance_matrix[i]) # Len(distance_matrix)
    \/ \E i \in 1..Len(distance_matrix) : \E j \in 1..Len(distance_matrix[i]) :
           distance_matrix[i][j] < 0
C3_ConfigErrorBeforeSearch ==
    ConfigError =>
        /\ pc \in {"normalize", "build", "search", "done"}
        /\ result.kind \notin {"none", "solution"}

\* C4: without an assignment the decoding walk is never entered and the call
\* returns the no-solution outcome, which is no list of routes, not even the
\* empty one; with an assignment the call returns a list of routes.
C4_NoSolutionDistinct ==
    /\ pc \in {"vehicle", "walk"} => assignment.found
    /\ pc = "done" =>
           /\ assignment.found <=> result.kind = "solution"
           /\ ~assignment.found =>
                  /\ result.kind = "none"
                  /\ result # Solution(<<>>)
                  /\ solution = <<>> /\ route = <<>>
C4_Witness == pc = "done" /\ ~assignment.found /\ result.kind = "none"

\* C5: in every emitted route the dist fields sum to at most the hard
\* distance bound.
C5_RouteDistanceWithinHardBound ==
    \A j \in 1..Len(solution) : SumSeq(DistsOf(solution[j])) <= distance_constraint_int

\* C6: every emitted route has the depot's node in its first and in its last
\* Stop.
C6_RouteStartsAndEndsAtDepot ==
    \A j \in 1..Len(solution) :
        /\ Len(solution[j]) >= 2
        /\ solution[j][1].idx = depot_index
        /\ solution[j][Len(solution[j])].idx = depot_index
C6_Witness ==
    /\ Returned
    /\ Len(result.routes) >= 2
    /\ depot_index # 0

\* C7: in every emitted route the demands of all Stops but the trailing depot
\* sum to at most vehicle_cap, each demand being the entry of the normalised
\* demand vector for the Stop's node.
C7_RouteLoadWithinCapacity ==
    \A j \in 1..Len(solution) :
        /\ LoadOf(solution[j]) <= vehicle_cap
        /\ \A k \in 1..Len(solution[j]) :
               solution[j][k].demand =
                   At(IF Len(demand) = Len(distance_matrix) - 1 THEN <<0>> \o demand ELSE demand,
                      solution[j][k].idx)
C7_Witness ==
    /\ Returned
    /\ vehicle_cap > 0
    /\ \E j \in 1..Len(result.routes) : LoadOf(result.routes[j]) = vehicle_cap
    /\ \E j \in 1..Len(result.routes) : result.routes[j][1].demand > 0

\* C8: in a returned Solution every non-depot node is a Stop of exactly one
\* route, exactly once.
C8_EveryCustomerExactlyOnce ==
    Returned =>
        \A n \in (0..(Len(distance_matrix) - 1)) \ {depot_index} :
            Occurrences(result.routes, n) = 1
C8_Witness ==
    /\ Returned
    /\ Len(distance_matrix) >= 3
    /\ Len(result.routes) < NUM_VEHICLES
    /\ \E j \in 1..Len(result.routes) : Len(result.routes[j]) >= 4

\* C9: the returned Solution lists, in ascending vehicle order, the chain of
\* every vehicle whose start is not followed by its end, and nothing for the
\* other vehicles; it has at most as many routes as there are non-depot nodes.
C9_OneRoutePerUsedVehicle ==
    Returned =>
        /\ [j \in 1..Len(result.routes) |-> NodesOf(result.routes[j])] = UsedChains(0)
        /\ Len(result.routes) <= Len(distance_matrix) - 1
C9_Witness ==
    /\ Returned
    /\ NUM_VEHICLES > Len(distance_matrix) - 1
    /\ NextVar(assignment, Start(0)) >= Size
    /\ Len(result.routes) = 1

\* C10: the walk of a used vehicle follows that vehicle's chain position by
\* position, so every iteration consumes one position of the chain and the
\* walk ends after as many iterations as the chain has positions: at the
\* vehicle's end, with (customers on the chain + 2) Stops appended.
C10_WalkFollowsChain ==
    /\ pc = "walk" =>
           LET c == Chain(assignment, Start(route_number))
           IN  /\ Len(route) < Len(c)
               /\ idx = c[Len(route) + 1]
               /\ \A k, l \in 1..Len(c) : k # l => c[k] # c[l]
               /\ NodesOf(route) = [k \in 1..Len(route) |-> IndexToNode(c[k])]
    /\ (pc = "vehicle" /\ route # <<>>) =>
           LET c == Chain(assignment, Start(route_number - 1))
           IN  /\ idx = Size + route_number - 1
               /\ Len(route) = Cardinality({k \in 1..Len(c) : c[k] \in Customers}) + 2
               /\ Len(route) = Len(c)
               /\ solution[Len(solution)] = route
C10_Witness == pc = "vehicle" /\ Len(route) >= 4 /\ route_number >= 2

====
